---- MODULE Spec2Model ----
(***************************************************************************)
(* A model of the x0001e symbolic execution engine: the bit-vector wrapper *)
(* (src/src/solver/bv.rs), the LLVM intrinsic hooks and their registry     *)
(* (src/src/hooks/intrinsics.rs), and the path explorer that the tests     *)
(* drive through VM::run().                                                *)
(*                                                                         *)
(* A bit-vector is modelled by its width and its unsigned value; a 1-bit   *)
(* condition over the symbolic input is modelled by the set of input       *)
(* values (solver models) that make it true.                               *)
(***************************************************************************)
EXTENDS Integers, Sequences, FiniteSets, TLC

\* ---------------------------------------------------------------- bounds
MaxWidth == 3      \* widths of the scalar integer operands: 1..MaxWidth
MaxVecBits == 4    \* total width of a vector operand: lanes * lane width <= MaxVecBits
InputRange == 4    \* the symbolic input of an entry function ranges over 0..InputRange-1
NumInner == 3      \* branching instructions of an entry function
PtrBits == 3       \* project.ptr_size: the width of a pointer
MemBytes == 4      \* size of the one allocation, at the addresses 0 .. MemBytes-1

\* ------------------------------------------------------------ bit-vectors
RECURSIVE Pow2(_)
Pow2(n) == IF n <= 0 THEN 1 ELSE 2 * Pow2(n - 1)

\* The value a panicking operation (assert!, todo!, unwrap, or an abort inside
\* the solver library) leaves behind: no bit-vector at all.
PanicBV == [len |-> -1, val |-> 0]

IsPanic(x) == x.len < 0

MkBV(w, v) == [len |-> w, val |-> v % Pow2(w)]

\* Two's complement reading of a bit-vector.
Signed(x) == IF x.val >= Pow2(x.len - 1) THEN x.val - Pow2(x.len) ELSE x.val

FitsSigned(w, v) == -Pow2(w - 1) <= v /\ v <= Pow2(w - 1) - 1

BoolBV(b) == [len |-> 1, val |-> IF b THEN 1 ELSE 0]

\* boolector::BV::zero / one / ones: constants of a width, which must be positive.
bv_zero(w) == IF w < 1 THEN PanicBV ELSE [len |-> w, val |-> 0]

bv_one(w) == IF w < 1 THEN PanicBV ELSE [len |-> w, val |-> 1]

bv_ones(w) == IF w < 1 THEN PanicBV ELSE [len |-> w, val |-> Pow2(w) - 1]

\* The width check every arithmetic wrapper starts with.
SameLen(a, b) == ~IsPanic(a) /\ ~IsPanic(b) /\ a.len = b.len

add(a, b) == IF ~SameLen(a, b) THEN PanicBV ELSE MkBV(a.len, a.val + b.val)

sub(a, b) == IF ~SameLen(a, b) THEN PanicBV ELSE MkBV(a.len, a.val - b.val)

mul(a, b) == IF ~SameLen(a, b) THEN PanicBV ELSE MkBV(a.len, a.val * b.val)

ugt(a, b) == IF ~SameLen(a, b) THEN PanicBV ELSE BoolBV(a.val > b.val)

uaddo(a, b) == IF ~SameLen(a, b) THEN PanicBV ELSE BoolBV(a.val + b.val >= Pow2(a.len))

saddo(a, b) ==
    IF ~SameLen(a, b) THEN PanicBV
    ELSE BoolBV(~FitsSigned(a.len, Signed(a) + Signed(b)))

usubo(a, b) == IF ~SameLen(a, b) THEN PanicBV ELSE BoolBV(a.val < b.val)

ssubo(a, b) ==
    IF ~SameLen(a, b) THEN PanicBV
    ELSE BoolBV(~FitsSigned(a.len, Signed(a) - Signed(b)))

umulo(a, b) == IF ~SameLen(a, b) THEN PanicBV ELSE BoolBV(a.val * b.val >= Pow2(a.len))

smulo(a, b) ==
    IF ~SameLen(a, b) THEN PanicBV
    ELSE BoolBV(~FitsSigned(a.len, Signed(a) * Signed(b)))

\* The comparisons besides ugt: eq, ne, ugte, ult, ulte, sgt, sgte, slt, slte.
\* Each asserts that the two operands have the same width.
compare(m, a, b) ==
    IF ~SameLen(a, b) THEN PanicBV
    ELSE BoolBV(CASE m = "eq" -> a.val = b.val
                  [] m = "ne" -> a.val # b.val
                  [] m = "ugte" -> a.val >= b.val
                  [] m = "ult" -> a.val < b.val
                  [] m = "ulte" -> a.val <= b.val
                  [] m = "sgt" -> Signed(a) > Signed(b)
                  [] m = "sgte" -> Signed(a) >= Signed(b)
                  [] m = "slt" -> Signed(a) < Signed(b)
                  [] m = "slte" -> Signed(a) <= Signed(b))

\* The solver's unsigned division: dividing by zero gives all ones.
udiv(a, b) ==
    IF ~SameLen(a, b) THEN PanicBV
    ELSE IF b.val = 0 THEN bv_ones(a.len) ELSE MkBV(a.len, a.val \div b.val)

\* The solver's unsigned remainder: the remainder by zero is the dividend.
urem(a, b) ==
    IF ~SameLen(a, b) THEN PanicBV
    ELSE IF b.val = 0 THEN a ELSE MkBV(a.len, a.val % b.val)

\* The solver's signed division: the unsigned quotient of the magnitudes of
\* the signed readings, negated when the signs differ.
sdiv(a, b) ==
    IF ~SameLen(a, b) THEN PanicBV
    ELSE LET ma == IF Signed(a) < 0 THEN MkBV(a.len, -Signed(a)) ELSE a
             mb == IF Signed(b) < 0 THEN MkBV(b.len, -Signed(b)) ELSE b
         IN  IF (Signed(a) < 0) # (Signed(b) < 0)
             THEN MkBV(a.len, -udiv(ma, mb).val)
             ELSE udiv(ma, mb)

\* The solver's signed remainder: the unsigned remainder of the magnitudes,
\* with the sign of the dividend.
srem(a, b) ==
    IF ~SameLen(a, b) THEN PanicBV
    ELSE LET ma == IF Signed(a) < 0 THEN MkBV(a.len, -Signed(a)) ELSE a
             mb == IF Signed(b) < 0 THEN MkBV(b.len, -Signed(b)) ELSE b
         IN  IF Signed(a) < 0
             THEN MkBV(a.len, -urem(ma, mb).val)
             ELSE urem(ma, mb)

\* The low w bits of x and y combined bit by bit, t naming and, or or xor.
RECURSIVE Bitwise(_, _, _, _)
Bitwise(t, x, y, w) ==
    IF w = 0 THEN 0
    ELSE (IF t = "and" THEN (x % 2) * (y % 2)
          ELSE IF t = "or" THEN (x % 2) + (y % 2) - (x % 2) * (y % 2)
          ELSE ((x % 2) + (y % 2)) % 2)
         + 2 * Bitwise(t, x \div 2, y \div 2, w - 1)

\* and, or, xor have no assertion of their own: the call goes to the solver,
\* which aborts on operands of different widths.
logical(m, a, b) ==
    IF ~SameLen(a, b) THEN PanicBV
    ELSE [len |-> a.len, val |-> Bitwise(m, a.val, b.val, a.len)]

\* sll, srl, sra have no assertion of their own either. The solver takes a
\* shift amount of the same width as the shifted value, and also one of width
\* log2(n) when the shifted value has a width n that is a power of two; it
\* aborts on any other pair of widths.
ShiftWidths(a, b) ==
    /\ ~IsPanic(a)
    /\ ~IsPanic(b)
    /\ (a.len = b.len \/ Pow2(b.len) = a.len)

shift(m, a, b) ==
    IF ~ShiftWidths(a, b) THEN PanicBV
    ELSE IF b.val >= a.len
    THEN (IF m = "sra" /\ Signed(a) < 0 THEN bv_ones(a.len) ELSE bv_zero(a.len))
    ELSE IF m = "sll" THEN MkBV(a.len, a.val * Pow2(b.val))
    ELSE IF m = "srl" THEN MkBV(a.len, a.val \div Pow2(b.val))
    ELSE MkBV(a.len, Signed(a) \div Pow2(b.val))

\* self.concat(other): self becomes the high bits, other the low bits.
concat(a, b) ==
    IF IsPanic(a) \/ IsPanic(b) THEN PanicBV
    ELSE [len |-> a.len + b.len, val |-> a.val * Pow2(b.len) + b.val]

\* self.slice(low, high): the wrapper asserts low <= high and high <= len; the
\* solver itself rejects high = len.
slice(x, low, high) ==
    IF IsPanic(x) \/ ~(low <= high) \/ ~(high <= x.len) THEN PanicBV
    ELSE IF high >= x.len THEN PanicBV
    ELSE [len |-> high - low + 1, val |-> (x.val \div Pow2(low)) % Pow2(high - low + 1)]

\* Which check stops self.slice(low, high): one of the two assert! of the
\* wrapper, the solver the wrapper then calls, or none.
slice_rejected_by(x, low, high) ==
    IF ~(low <= high) \/ ~(high <= x.len) THEN "wrapper"
    ELSE IF high >= x.len THEN "solver"
    ELSE "none"

\* self.zero_ext(width): the third arm is todo!().
zero_ext(x, width) ==
    IF IsPanic(x) THEN PanicBV
    ELSE IF x.len < width THEN [len |-> width, val |-> x.val]
    ELSE IF x.len = width THEN x
    ELSE PanicBV

\* self.resize_unsigned(width)
resize_unsigned(x, width) ==
    IF IsPanic(x) THEN PanicBV
    ELSE IF x.len = width THEN x
    ELSE IF x.len < width THEN slice(x, 0, width - 1)
    ELSE zero_ext(x, width)

\* self.ite(then, else): self must be one bit wide; the solver requires both
\* arms to have the same width.
ite(c, t, e) ==
    IF IsPanic(c) \/ c.len # 1 \/ ~SameLen(t, e) THEN PanicBV
    ELSE IF c.val = 1 THEN t ELSE e

\* uadds saturating to the constant one instead of all-ones.
uadds_One(a, b) ==
    IF ~SameLen(a, b) THEN PanicBV
    ELSE ite(uaddo(a, b), bv_one(a.len), add(a, b))

uadds(a, b) ==
    IF ~SameLen(a, b) THEN PanicBV
    ELSE LET result == add(a, b)
             overflow == uaddo(a, b)
             saturated == bv_ones(a.len)
         IN  ite(overflow, saturated, result)

sadds(a, b) ==
    IF ~SameLen(a, b) THEN PanicBV
    ELSE LET width == a.len
             result == add(a, b)
             overflow == saddo(a, b)
             is_negative == slice(a, a.len - 1, a.len - 1)
             min == concat(bv_one(1), bv_zero(width - 1))
             max == concat(bv_zero(1), bv_one(width - 1))
         IN  ite(overflow, ite(is_negative, min, max), result)

\* ------------------------------------------------ types, operands, results
\* The symbolic input of the entry function takes one of these values; a set of
\* path constraints is modelled by the set of input values that satisfy it.
Dom == 0 .. (InputRange - 1)

IntTy(w) == [kind |-> "int", bits |-> w, n |-> 0, scalable |-> FALSE]

VecTy(w, n, sc) == [kind |-> "vec", bits |-> w, n |-> n, scalable |-> sc]

PtrTy == [kind |-> "ptr", bits |-> 0, n |-> 0, scalable |-> FALSE]

\* An argument of a call: its IR type, whether state.get_var can evaluate it,
\* and the bit-vector it evaluates to.
Operand(ty, ok, bv) == [ty |-> ty, ok |-> ok, bv |-> bv]

\* A 1-bit symbolic value, given by the inputs on which it is 1.
Cond(S) == [len |-> 1, truth |-> S]

\* Result<ReturnValue>, and the unwinding of a panic.
Value(bv) == [tag |-> "Value", val |-> bv, err |-> "none"]

Void == [tag |-> "Void", val |-> PanicBV, err |-> "none"]

Err(e) == [tag |-> "Err", val |-> PanicBV, err |-> e]

Panic == [tag |-> "Panic", val |-> PanicBV, err |-> "none"]

NotCalled == [tag |-> "NotCalled", val |-> PanicBV, err |-> "none"]

\* What a hook hands back: its result and the state it leaves.
Out(r, st) == [ret |-> r, st |-> st]

\* ----------------------------------------------------------------- memory
BITS_IN_BYTE == 8

\* A u64 is kept as four 16-bit limbs, the lowest first; a u32 as two.
Limb == Pow2(16)

U64(n) == <<n, 0, 0, 0>>

\* `size as u32`: the low 32 bits.
as_u32(n) == <<n[1], n[2]>>

\* x * k in u32: the wrapped product, and whether the multiplication overflowed.
mul_u32(x, k) ==
    [ val |-> <<(x[1] * k) % Limb, (x[2] * k + (x[1] * k) \div Limb) % Limb>>,
      overflow |-> (x[2] * k + (x[1] * k) \div Limb) \div Limb # 0 ]

\* The memory of a state before the call: one allocation, every byte set.
InitMem == [a \in 0 .. (MemBytes - 1) |-> 16 + a]

\* A value read from memory: its bytes, the lowest address first.
Bytes(bs) == [len |-> BITS_IN_BYTE * Len(bs), bytes |-> bs]

\* The bytes memory stores for a value, little-endian.
BytesOf(value) ==
    IF "bytes" \in DOMAIN value THEN value.bytes
    ELSE [i \in 1 .. (value.len \div BITS_IN_BYTE) |->
             (value.val \div Pow2(BITS_IN_BYTE * (i - 1))) % Pow2(BITS_IN_BYTE)]

\* An access of k bytes at addr lies inside the allocation.
InBounds(addr, k) == 0 <= addr /\ addr + k <= MemBytes

\* mem.read(addr, bits), bits a u32: a value of exactly that many bits, or
\* OutOfBounds.
read(mem, addr, bits) ==
    IF bits[2] # 0 \/ ~InBounds(addr.val, bits[1] \div BITS_IN_BYTE)
    THEN [ok |-> FALSE, value |-> PanicBV]
    ELSE [ok |-> TRUE,
          value |-> Bytes([i \in 1 .. (bits[1] \div BITS_IN_BYTE) |-> mem[addr.val + i - 1]])]

\* mem.write(addr, value): the bytes of value go to addr, addr + 1, ..., or
\* OutOfBounds.
write(mem, addr, value) ==
    IF ~InBounds(addr.val, Len(BytesOf(value))) THEN [ok |-> FALSE, mem |-> mem]
    ELSE [ok |-> TRUE,
          mem |-> [a \in DOMAIN mem |->
                      IF addr.val <= a /\ a < addr.val + Len(BytesOf(value))
                      THEN BytesOf(value)[a - addr.val + 1]
                      ELSE mem[a]]]

\* get_u64_solution_from_operand(state, operand): the one solution of the
\* operand, as a u64.
get_u64_solution_from_operand(st, operand) ==
    IF operand.ok THEN [ok |-> TRUE, size |-> operand.bv.limbs]
    ELSE [ok |-> FALSE, size |-> U64(0)]

\* ------------------------------------------------------------------ hooks
noop(st, f) == Out(Void, st)

\* The write of llvm_memcpy, with the value it read.
Copied(st, dst, got) ==
    IF ~got.ok THEN Out(Err("OutOfBounds"), st)
    ELSE IF ~write(st.mem, dst, got.value).ok THEN Out(Err("OutOfBounds"), st)
    ELSE Out(Void, [st EXCEPT !.mem = write(st.mem, dst, got.value).mem])

\* llvm_memcpy reading at the destination and writing at the source.
llvm_memcpy_Swapped(st, f, checks) ==
    IF Len(f) # 4 THEN Out(Panic, st)
    ELSE IF ~f[1].ok \/ ~f[2].ok THEN Out(Err("GetVar"), st)
    ELSE IF ~get_u64_solution_from_operand(st, f[3]).ok THEN Out(Err("GetVar"), st)
    ELSE Copied(st, f[2].bv,
                read(st.mem, f[1].bv,
                     mul_u32(as_u32(get_u64_solution_from_operand(st, f[3]).size),
                             BITS_IN_BYTE).val))

\* `size as u32 * BITS_IN_BYTE` is a u32 multiplication: when it overflows, a
\* build with overflow checks panics and a build without them wraps.
llvm_memcpy(st, f, checks) ==
    IF Len(f) # 4 THEN Out(Panic, st)
    ELSE IF ~f[1].ok \/ ~f[2].ok THEN Out(Err("GetVar"), st)
    ELSE IF ~get_u64_solution_from_operand(st, f[3]).ok THEN Out(Err("GetVar"), st)
    ELSE IF checks /\ mul_u32(as_u32(get_u64_solution_from_operand(st, f[3]).size),
                              BITS_IN_BYTE).overflow
    THEN Out(Panic, st)
    ELSE Copied(st, f[1].bv,
                read(st.mem, f[2].bv,
                     mul_u32(as_u32(get_u64_solution_from_operand(st, f[3]).size),
                             BITS_IN_BYTE).val))

\* The loop of llvm_memset starting one byte after dst.
RECURSIVE Fill_FromNext(_, _, _, _, _)
Fill_FromNext(st, dst, value, byte, size) ==
    IF size = U64(byte) THEN Out(Void, st)
    ELSE IF ~write(st.mem, add(dst, MkBV(PtrBits, byte + 1)), value).ok
    THEN Out(Err("OutOfBounds"), st)
    ELSE Fill_FromNext(
             [st EXCEPT !.mem = write(st.mem, add(dst, MkBV(PtrBits, byte + 1)), value).mem],
             dst, value, byte + 1, size)

\* for byte in 0..size: write value at dst + byte, the sum taken at the width
\* of a pointer.
RECURSIVE Fill(_, _, _, _, _)
Fill(st, dst, value, byte, size) ==
    IF size = U64(byte) THEN Out(Void, st)
    ELSE IF ~write(st.mem, add(dst, MkBV(PtrBits, byte)), value).ok
    THEN Out(Err("OutOfBounds"), st)
    ELSE Fill([st EXCEPT !.mem = write(st.mem, add(dst, MkBV(PtrBits, byte)), value).mem],
              dst, value, byte + 1, size)

llvm_memset(st, f) ==
    IF Len(f) # 4 THEN Out(Panic, st)
    ELSE IF ~f[1].ok \/ ~f[2].ok THEN Out(Err("GetVar"), st)
    ELSE IF f[2].bv.len # BITS_IN_BYTE THEN Out(Panic, st)
    ELSE IF ~get_u64_solution_from_operand(st, f[3]).ok THEN Out(Err("GetVar"), st)
    ELSE Fill(st, f[1].bv, f[2].bv, 0, get_u64_solution_from_operand(st, f[3]).size)

\* assert_eq!(overflow.len(), 1) on the pair the closure is about to return.
CheckedPair(pair) ==
    IF IsPanic(pair[1]) \/ IsPanic(pair[2]) \/ pair[2].len # 1
    THEN <<PanicBV, PanicBV>>
    ELSE pair

\* operation with the signed subtraction using the unsigned borrow flag.
operation_SSubBorrow(op, lhs, rhs) ==
    CheckedPair(CASE op = "SAdd" -> <<add(lhs, rhs), saddo(lhs, rhs)>>
                  [] op = "UAdd" -> <<add(lhs, rhs), uaddo(lhs, rhs)>>
                  [] op = "SSub" -> <<sub(lhs, rhs), usubo(lhs, rhs)>>
                  [] op = "USub" -> <<sub(lhs, rhs), usubo(lhs, rhs)>>
                  [] op = "SMul" -> <<mul(lhs, rhs), smulo(lhs, rhs)>>
                  [] op = "UMul" -> <<mul(lhs, rhs), umulo(lhs, rhs)>>)

\* The closure `operation` of binary_op_overflow; each op is a (result, overflow) pair.
operation(op, lhs, rhs) ==
    CheckedPair(CASE op = "SAdd" -> <<add(lhs, rhs), saddo(lhs, rhs)>>
                  [] op = "UAdd" -> <<add(lhs, rhs), uaddo(lhs, rhs)>>
                  [] op = "SSub" -> <<sub(lhs, rhs), ssubo(lhs, rhs)>>
                  [] op = "USub" -> <<sub(lhs, rhs), usubo(lhs, rhs)>>
                  [] op = "SMul" -> <<mul(lhs, rhs), smulo(lhs, rhs)>>
                  [] op = "UMul" -> <<mul(lhs, rhs), umulo(lhs, rhs)>>)

\* The closure of the map: the operation on lane i of the two operands.
Lane(op, lhs, rhs, bits, i) ==
    operation(op, slice(lhs, i * bits, (i + 1) * bits - 1),
                  slice(rhs, i * bits, (i + 1) * bits - 1))

\* The closure of the reduce: the new lane goes above the accumulator.
Reduce(acc, cur) == <<concat(cur[1], acc[1]), concat(cur[2], acc[2])>>

\* The reduce with the accumulator concatenated above every new lane.
RECURSIVE LaneFold_AccAbove(_, _, _, _, _)
LaneFold_AccAbove(op, lhs, rhs, bits, i) ==
    IF i = 0 THEN Lane(op, lhs, rhs, bits, 0)
    ELSE Reduce(Lane(op, lhs, rhs, bits, i), LaneFold_AccAbove(op, lhs, rhs, bits, i - 1))

\* (0..num_elements).map(..).reduce(..): the pair accumulated over lanes 0..i.
RECURSIVE LaneFold(_, _, _, _, _)
LaneFold(op, lhs, rhs, bits, i) ==
    IF i = 0 THEN Lane(op, lhs, rhs, bits, 0)
    ELSE Reduce(LaneFold(op, lhs, rhs, bits, i - 1), Lane(op, lhs, rhs, bits, i))

\* overflow.concat(&result), returned as the value of the call unless an
\* assertion failed on the way.
Struct(pair, st) ==
    IF IsPanic(concat(pair[2], pair[1])) THEN Out(Panic, st)
    ELSE Out(Value(concat(pair[2], pair[1])), st)

binary_op_overflow(st, f, op) ==
    IF Len(f) # 2 THEN Out(Panic, st)
    ELSE IF ~f[1].ok \/ ~f[2].ok THEN Out(Err("GetVar"), st)
    ELSE IF f[1].ty.kind = "int" /\ f[2].ty.kind = "int"
    THEN Struct(operation(op, f[1].bv, f[2].bv), st)
    ELSE IF f[1].ty.kind = "vec" /\ f[2].ty.kind = "vec"
            /\ ~f[1].ty.scalable /\ ~f[2].ty.scalable
    THEN IF f[1].ty.bits # f[2].ty.bits \/ f[1].ty.n # f[2].ty.n
         THEN Out(Panic, st)
         ELSE IF f[1].ty.n = 0 THEN Out(Err("MalformedInstruction"), st)
         ELSE Struct(LaneFold(op, f[1].bv, f[2].bv, f[1].ty.bits, f[1].ty.n - 1), st)
    ELSE IF f[1].ty.kind = "vec" /\ f[2].ty.kind = "vec"
    THEN Out(Panic, st)
    ELSE Out(Err("MalformedInstruction"), st)

llvm_sadd_with_overflow(st, f) == binary_op_overflow(st, f, "SAdd")

llvm_uadd_with_overflow(st, f) == binary_op_overflow(st, f, "UAdd")

llvm_ssub_with_overflow(st, f) == binary_op_overflow(st, f, "SSub")

llvm_usub_with_overflow(st, f) == binary_op_overflow(st, f, "USub")

llvm_smul_with_overflow(st, f) == binary_op_overflow(st, f, "SMul")

llvm_umul_with_overflow(st, f) == binary_op_overflow(st, f, "UMul")

umax_op(lhs, rhs) == ite(ugt(lhs, rhs), lhs, rhs)

\* The closure a hook hands to common::binop.
Closure(cl, lhs, rhs) ==
    CASE cl = "uadds" -> uadds(lhs, rhs)
      [] cl = "sadds" -> sadds(lhs, rhs)
      [] cl = "umax" -> umax_op(lhs, rhs)

\* Ok(value) of a closure's result, unless an assertion failed in it.
Computed(r) == IF IsPanic(r) THEN Panic ELSE Value(r)

\* common::binop: the operation on two integers, or lane by lane on two vectors
\* with the lanes concatenated in lane order.
RECURSIVE BinopLanes(_, _, _, _, _)
BinopLanes(cl, lhs, rhs, bits, i) ==
    IF i = 0
    THEN Closure(cl, slice(lhs, 0, bits - 1), slice(rhs, 0, bits - 1))
    ELSE concat(Closure(cl, slice(lhs, i * bits, (i + 1) * bits - 1),
                            slice(rhs, i * bits, (i + 1) * bits - 1)),
                BinopLanes(cl, lhs, rhs, bits, i - 1))

binop(cl, f) ==
    IF ~f[1].ok \/ ~f[2].ok THEN Err("GetVar")
    ELSE IF f[1].ty.kind = "int" /\ f[2].ty.kind = "int"
    THEN Computed(Closure(cl, f[1].bv, f[2].bv))
    ELSE IF f[1].ty.kind = "vec" /\ f[2].ty.kind = "vec"
            /\ ~f[1].ty.scalable /\ ~f[2].ty.scalable
            /\ f[1].ty.bits = f[2].ty.bits /\ f[1].ty.n = f[2].ty.n /\ f[1].ty.n > 0
    THEN Computed(BinopLanes(cl, f[1].bv, f[2].bv, f[1].ty.bits, f[1].ty.n - 1))
    ELSE Err("MalformedInstruction")

binary_op_saturate(st, f, op) ==
    IF Len(f) # 2 THEN Out(Panic, st)
    ELSE IF op = "UAdd" THEN Out(binop("uadds", f), st)
    ELSE Out(binop("sadds", f), st)

llvm_uadd_sat(st, f) == binary_op_saturate(st, f, "UAdd")

llvm_sadd_sat(st, f) == binary_op_saturate(st, f, "SAdd")

llvm_umax(st, f) ==
    IF Len(f) # 2 THEN Out(Panic, st) ELSE Out(binop("umax", f), st)

\* get_var(a0).unwrap(): a failed evaluation panics.
llvm_expect(st, f) ==
    IF Len(f) # 2 THEN Out(Panic, st)
    ELSE IF ~f[1].ok THEN Out(Panic, st)
    ELSE Out(Value(f[1].bv), st)

\* llvm_assume asserting the condition in place of the earlier constraints.
llvm_assume_Replaces(st, info) ==
    IF Len(info) # 1 THEN Out(Panic, st)
    ELSE IF ~info[1].ok THEN Out(Err("GetVar"), st)
    ELSE Out(Void, [st EXCEPT !.cons = info[1].bv.truth])

\* llvm_assume returning without asserting the condition.
llvm_assume_NoAssert(st, info) ==
    IF Len(info) # 1 THEN Out(Panic, st)
    ELSE IF ~info[1].ok THEN Out(Err("GetVar"), st)
    ELSE Out(Void, st)

\* vm.state.solver.assert(&condition): the condition joins the constraints of
\* the state the hook runs on.
llvm_assume(st, info) ==
    IF Len(info) # 1 THEN Out(Panic, st)
    ELSE IF ~info[1].ok THEN Out(Err("GetVar"), st)
    ELSE Out(Void, [st EXCEPT !.cons = st.cons \cap info[1].bv.truth])

\* --------------------------------------------------------- intrinsic names
\* A name is the sequence of its characters; the words the names are made of.
Word ==
    [ llvm |-> <<"l", "l", "v", "m">>,
      assume |-> <<"a", "s", "s", "u", "m", "e">>,
      memcpy |-> <<"m", "e", "m", "c", "p", "y">>,
      memset |-> <<"m", "e", "m", "s", "e", "t">>,
      umax |-> <<"u", "m", "a", "x">>,
      smax |-> <<"s", "m", "a", "x">>,
      umin |-> <<"u", "m", "i", "n">>,
      sadd |-> <<"s", "a", "d", "d">>,
      uadd |-> <<"u", "a", "d", "d">>,
      ssub |-> <<"s", "s", "u", "b">>,
      usub |-> <<"u", "s", "u", "b">>,
      smul |-> <<"s", "m", "u", "l">>,
      umul |-> <<"u", "m", "u", "l">>,
      with |-> <<"w", "i", "t", "h">>,
      overflow |-> <<"o", "v", "e", "r", "f", "l", "o", "w">>,
      sat |-> <<"s", "a", "t">>,
      expect |-> <<"e", "x", "p", "e", "c", "t">>,
      probability |-> <<"p", "r", "o", "b", "a", "b", "i", "l", "i", "t", "y">>,
      dbg |-> <<"d", "b", "g">>,
      lifetime |-> <<"l", "i", "f", "e", "t", "i", "m", "e">>,
      experimental |-> <<"e", "x", "p", "e", "r", "i", "m", "e", "n", "t", "a", "l">>,
      value |-> <<"v", "a", "l", "u", "e">>,
      start |-> <<"s", "t", "a", "r", "t">>,
      i8 |-> <<"i", "8">>,
      inline |-> <<"i", "n", "l", "i", "n", "e">> ]

\* The words joined by dots: Dotted(<<Word.llvm, Word.umax>>) is "llvm.umax".
RECURSIVE Dotted(_)
Dotted(ws) ==
    IF Len(ws) = 0 THEN <<>>
    ELSE IF Len(ws) = 1 THEN ws[1]
    ELSE ws[1] \o <<".">> \o Dotted(Tail(ws))

\* The same with a trailing dot: Family(<<Word.llvm, Word.umax>>) is "llvm.umax.".
Family(ws) == Dotted(ws) \o <<".">>

\* -------------------------------------------------------- Intrinsics registry
\* Intrinsics::new_with_defaults: the two tables, each a map from a name to the
\* hook registered under it.
DefaultFixed == (Dotted(<<Word.llvm, Word.assume>>) :> "llvm_assume")

DefaultVariable ==
    (Family(<<Word.llvm, Word.memcpy>>) :> "llvm_memcpy")
    @@ (Family(<<Word.llvm, Word.memset>>) :> "llvm_memset")
    @@ (Family(<<Word.llvm, Word.umax>>) :> "llvm_umax")
    @@ (Family(<<Word.llvm, Word.sadd, Word.with, Word.overflow>>) :> "llvm_sadd_with_overflow")
    @@ (Family(<<Word.llvm, Word.uadd, Word.with, Word.overflow>>) :> "llvm_uadd_with_overflow")
    @@ (Family(<<Word.llvm, Word.ssub, Word.with, Word.overflow>>) :> "llvm_ssub_with_overflow")
    @@ (Family(<<Word.llvm, Word.usub, Word.with, Word.overflow>>) :> "llvm_usub_with_overflow")
    @@ (Family(<<Word.llvm, Word.smul, Word.with, Word.overflow>>) :> "llvm_smul_with_overflow")
    @@ (Family(<<Word.llvm, Word.umul, Word.with, Word.overflow>>) :> "llvm_umul_with_overflow")
    @@ (Family(<<Word.llvm, Word.sadd, Word.sat>>) :> "llvm_sadd_sat")
    @@ (Family(<<Word.llvm, Word.uadd, Word.sat>>) :> "llvm_uadd_sat")
    @@ (Family(<<Word.llvm, Word.expect>>) :> "llvm_expect")
    @@ (Dotted(<<Word.llvm, Word.dbg>>) :> "noop")
    @@ (Dotted(<<Word.llvm, Word.lifetime>>) :> "noop")
    @@ (Dotted(<<Word.llvm, Word.experimental>>) :> "noop")

IsPrefix(p, s) == Len(p) <= Len(s) /\ SubSeq(s, 1, Len(p)) = p

NoHook == "None"

\* A lookup of the key itself, ancestors ignored.
get_exact_value(trie, name) == IF name \in DOMAIN trie THEN trie[name] ELSE NoHook

\* Trie::get_ancestor_value: the value stored under the closest ancestor of the
\* key, the key itself included: the longest stored key that is a prefix of it.
get_ancestor_value(trie, name) ==
    LET anc == {k \in DOMAIN trie : IsPrefix(k, name)}
    IN  IF anc = {} THEN NoHook
        ELSE trie[CHOOSE k \in anc : \A j \in anc : Len(j) <= Len(k)]

\* Intrinsics::get: the fixed table first, the variable table otherwise.
get(fx, vr, name) ==
    IF name \in DOMAIN fx THEN fx[name] ELSE get_ancestor_value(vr, name)

\* ------------------------------------------------------------------ state
VARIABLES
    fixed,      \* Intrinsics.fixed
    variable,   \* Intrinsics.variable
    name,       \* the callee name of the call being dispatched
    args,       \* FnInfo.arguments of that call
    hook,       \* what Intrinsics::get returned for the name ("unset" before the lookup)
    state,      \* vm.state: the constraints asserted on its solver, and its memory
    result,     \* what the hook returned
    prog,       \* the entry function VM::new was given
    worklist,   \* the suspended states, the last one on top
    yielded,    \* the outcomes run() has returned so far, in order
    vm,         \* "ready", "none" once run() returned None, "panicked" once a panic left run()
    pushed,     \* the nodes of the states ever put on the worklist, in order
    popped,     \* the nodes of the states ever taken off it, in order
    method,     \* the BV method being called
    receiver,   \* its self
    argument,   \* its other operand, target width or bit range
    returned    \* what the method returned, and what stopped it if it panicked

callVars == <<name, args, hook, result>>

vmVars == <<prog, worklist, yielded, vm, pushed, popped>>

bvVars == <<method, receiver, argument, returned>>

vars == <<fixed, variable, name, args, hook, state, result,
          prog, worklist, yielded, vm, pushed, popped,
          method, receiver, argument, returned>>

\* The operand of a BV method: another bit-vector, a width, or a bit range.
Arg(bv, width, low, high) == [bv |-> bv, width |-> width, low |-> low, high |-> high]

\* What a BV method call ends in: the bit-vector, and the check that stopped it.
Returned(bv, by) == [bv |-> bv, by |-> by]

NotReturned == Returned(PanicBV, "unset")

\* No BV method is being called.
NoMethod ==
    /\ method = "none"
    /\ receiver = PanicBV
    /\ argument = Arg(PanicBV, 0, 0, 0)
    /\ returned = NotReturned

\* ------------------------------------------------------- entry functions
\* An entry function is a tree of instructions. Node 1 is the entry; the
\* branching instructions are the nodes 1..NumInner and node k branches to the
\* nodes 3k-1, 3k, 3k+1 in the order of its successors; every other node ends
\* the path.
Inner == 1 .. NumInner

Nodes == 1 .. (3 * NumInner + 1)

Parent(k) == (k + 1) \div 3

Index(k) == k - (3 * Parent(k) - 1) + 1

\* Conditions on the symbolic input: concrete true, concrete false, and two
\* that depend on the input.
LowHalf == {x \in Dom : 2 * x < InputRange}

Even == {x \in Dom : x % 2 = 0}

Br(c) == [op |-> "br", cond |-> c, cases |-> <<>>]

Switch(vs) == [op |-> "switch", cond |-> {}, cases |-> vs]

InnerInstrs == {Br(Dom), Br({}), Br(LowHalf), Br(Even), Switch(<<0, 1>>)}

\* What ends a path: a return, an unreachable, or a call of an intrinsic
\* followed by a return. `fails` marks the calls that cannot succeed.
Ret == [op |-> "ret", name |-> <<>>, args |-> <<>>, fails |-> FALSE]

Unreachable == [op |-> "unreachable", name |-> <<>>, args |-> <<>>, fails |-> FALSE]

CallThenRet(nm, as, fl) == [op |-> "call", name |-> nm, args |-> as, fails |-> fl]

LeafCalls ==
    { CallThenRet(Dotted(<<Word.llvm, Word.assume>>), <<Operand(IntTy(1), TRUE, Cond(Even))>>, FALSE),
      CallThenRet(Dotted(<<Word.llvm, Word.assume>>), <<Operand(IntTy(1), FALSE, PanicBV)>>, TRUE),
      CallThenRet(Dotted(<<Word.llvm, Word.sadd, Word.with, Word.overflow, Word.i8>>),
                  <<Operand(IntTy(2), TRUE, MkBV(2, 1)), Operand(PtrTy, TRUE, MkBV(2, 1))>>, TRUE),
      CallThenRet(Dotted(<<Word.llvm, Word.sadd, Word.with, Word.overflow, Word.i8>>),
                  <<Operand(IntTy(2), TRUE, MkBV(2, 1))>>, TRUE),
      CallThenRet(Dotted(<<Word.llvm, Word.expect, Word.i8>>),
                  <<Operand(IntTy(2), FALSE, PanicBV), Operand(IntTy(2), TRUE, MkBV(2, 1))>>, TRUE) }

LeafInstrs == {Unreachable} \cup LeafCalls

\* An entry function: its branching instructions, and at most one node that
\* ends its path with something else than a return.
Progs ==
    [inner : [Inner -> InnerInstrs], special : Nodes \ Inner, instr : LeafInstrs]
    \cup [inner : [Inner -> InnerInstrs], special : {0}, instr : {Ret}]

NoProg == [inner |-> <<>>, special |-> 0, instr |-> Ret]

LeafInstr(p, k) == IF k = p.special THEN p.instr ELSE Ret

\* The successors of a branching instruction in source order, each with the
\* constraint under which it is taken: cond and its negation for br; for
\* switch, sel = v_i and sel # v_j for the earlier cases, then the default.
RECURSIVE CaseSuccs(_, _, _)
CaseSuccs(k, vs, i) ==
    IF i > Len(vs) THEN <<>>
    ELSE <<[target |-> 3 * k - 2 + i,
            c |-> {vs[i]} \ {vs[j] : j \in 1 .. (i - 1)}]>> \o CaseSuccs(k, vs, i + 1)

Succs(p, k) ==
    LET ins == p.inner[k]
    IN  IF ins.op = "br"
        THEN <<[target |-> 3 * k - 1, c |-> ins.cond],
               [target |-> 3 * k, c |-> Dom \ ins.cond]>>
        ELSE CaseSuccs(k, ins.cases, 1)
             \o <<[target |-> 3 * k - 1 + Len(ins.cases),
                    c |-> Dom \ {ins.cases[j] : j \in 1 .. Len(ins.cases)}]>>

\* ------------------------------------------------------ inputs of the calls
IntOperand(w, v) == Operand(IntTy(w), TRUE, MkBV(w, v))

VecOperand(w, n, v) == Operand(VecTy(w, n, FALSE), TRUE, MkBV(w * n, v))

IntPairs ==
    UNION {{<<IntOperand(w, a), IntOperand(w, b)>> :
                a \in 0 .. (Pow2(w) - 1), b \in 0 .. (Pow2(w) - 1)} : w \in 1 .. MaxWidth}

\* The vector shapes: n lanes of w bits each.
VecShapes == {sh \in (1 .. MaxVecBits) \X (1 .. MaxVecBits) : sh[1] * sh[2] <= MaxVecBits}

VecPairs ==
    UNION {{<<VecOperand(sh[2], sh[1], a), VecOperand(sh[2], sh[1], b)>> :
                a \in 0 .. (Pow2(sh[1] * sh[2]) - 1), b \in 0 .. (Pow2(sh[1] * sh[2]) - 1)} :
                sh \in VecShapes}

\* Calls the bitcode parser can hand over although no well-typed module has them.
MalformedArgs ==
    { <<IntOperand(2, 1)>>,
      <<IntOperand(1, 1), IntOperand(2, 1)>>,
      <<IntOperand(2, 1), VecOperand(1, 2, 1)>>,
      <<Operand(PtrTy, TRUE, MkBV(2, 1)), Operand(PtrTy, TRUE, MkBV(2, 1))>>,
      <<VecOperand(2, 0, 0), VecOperand(2, 0, 0)>>,
      <<VecOperand(1, 1, 1), VecOperand(1, 2, 1)>>,
      <<Operand(VecTy(1, 2, TRUE), TRUE, MkBV(2, 1)), Operand(VecTy(1, 2, TRUE), TRUE, MkBV(2, 1))>>,
      <<VecOperand(1, 2, 1), Operand(VecTy(1, 2, TRUE), TRUE, MkBV(2, 1))>>,
      <<Operand(IntTy(2), FALSE, PanicBV), IntOperand(2, 1)>>,
      <<IntOperand(2, 1), Operand(IntTy(2), FALSE, PanicBV)>> }

ArithArgs == IntPairs \cup VecPairs \cup MalformedArgs

CondArgs ==
    {<<Operand(IntTy(1), TRUE, Cond(S))>> : S \in SUBSET Dom}
    \cup { <<>>,
           <<Operand(IntTy(1), FALSE, PanicBV)>>,
           <<Operand(IntTy(1), TRUE, Cond(Dom)), Operand(IntTy(1), TRUE, Cond(Dom))>> }

OverflowNames ==
    {Dotted(<<Word.llvm, o, Word.with, Word.overflow, Word.i8>>) :
        o \in {Word.sadd, Word.uadd, Word.ssub, Word.usub, Word.smul, Word.umul}}

ArithNames ==
    OverflowNames
    \cup { Dotted(<<Word.llvm, Word.sadd, Word.sat, Word.i8>>),
           Dotted(<<Word.llvm, Word.uadd, Word.sat, Word.i8>>),
           Dotted(<<Word.llvm, Word.umax, Word.i8>>),
           Dotted(<<Word.llvm, Word.expect, Word.i8>>) }

CondNames == {Dotted(<<Word.llvm, Word.assume>>)}

OtherNames ==
    { Dotted(<<Word.llvm, Word.dbg, Word.value>>),
      Dotted(<<Word.llvm, Word.lifetime, Word.start>>),
      Word.llvm \o <<".">> \o Word.dbg \o Word.value,
      Dotted(<<Word.llvm, Word.experimental, Word.i8>>),
      Dotted(<<Word.llvm, Word.memcpy, Word.i8>>),
      Dotted(<<Word.llvm, Word.memcpy, Word.inline, Word.i8>>),
      Dotted(<<Word.llvm, Word.memset, Word.i8>>),
      Dotted(<<Word.llvm, Word.expect, Word.with, Word.probability, Word.i8>>),
      Dotted(<<Word.llvm, Word.ssub, Word.sat, Word.i8>>),
      Dotted(<<Word.llvm, Word.usub, Word.sat, Word.i8>>),
      Dotted(<<Word.llvm, Word.umin, Word.i8>>),
      Dotted(<<Word.llvm, Word.smax, Word.i8>>),
      Dotted(<<Word.llvm, Word.assume, Word.i8>>),
      Dotted(<<Word.llvm, Word.expect>>),
      Dotted(<<Word.llvm, Word.umax>>),
      Family(<<Word.llvm, Word.umax>>),
      Dotted(<<Word.llvm, Word.sadd, Word.with>>),
      Word.llvm }

PtrOperand(a) == Operand(PtrTy, TRUE, MkBV(PtrBits, a))

SizeOperand(n) == Operand(IntTy(64), TRUE, [len |-> 64, limbs |-> n])

\* The sizes of the memory calls: the small ones, and 2^29, 2^29 + 1, 2^32,
\* 2^32 + 2 and 2^64 - 1.
Sizes ==
    {U64(n) : n \in 0 .. (MemBytes + 1)}
    \cup { <<0, Pow2(13), 0, 0>>, <<1, Pow2(13), 0, 0>>, <<0, 0, 1, 0>>, <<2, 0, 1, 0>>,
           <<Limb - 1, Limb - 1, Limb - 1, Limb - 1>> }

\* The arguments of a memory call: the two operands after the destination,
\* the size, and the volatile flag.
MemArgs(seconds) ==
    {<<PtrOperand(d), x, SizeOperand(n), IntOperand(1, 0)>> :
        d \in 0 .. (Pow2(PtrBits) - 1), x \in seconds, n \in Sizes}
    \cup { <<PtrOperand(0), PtrOperand(1), SizeOperand(U64(1))>>,
           <<PtrOperand(0), Operand(PtrTy, FALSE, PanicBV), SizeOperand(U64(1)), IntOperand(1, 0)>>,
           <<PtrOperand(0), IntOperand(2, 1), SizeOperand(U64(1)), IntOperand(1, 0)>>,
           <<PtrOperand(0), IntOperand(BITS_IN_BYTE, 1), Operand(IntTy(64), FALSE, PanicBV),
             IntOperand(1, 0)>> }

CallNames == ArithNames \cup CondNames \cup OtherNames

Calls ==
    (ArithNames \X ArithArgs) \cup (CondNames \X CondArgs) \cup (OtherNames \X MalformedArgs)
    \cup ({Dotted(<<Word.llvm, Word.memcpy, Word.i8>>),
           Dotted(<<Word.llvm, Word.memcpy, Word.inline, Word.i8>>)}
              \X MemArgs({PtrOperand(s) : s \in 0 .. (Pow2(PtrBits) - 1)}))
    \cup ({Dotted(<<Word.llvm, Word.memset, Word.i8>>)}
              \X MemArgs({IntOperand(BITS_IN_BYTE, v) : v \in {0, 171}}))

\* ------------------------------------------------- dispatch of one call
InitCall ==
    /\ fixed = DefaultFixed
    /\ variable = DefaultVariable
    /\ \E c \in Calls : name = c[1] /\ args = c[2]
    /\ hook = "unset"
    /\ \E earlier \in (IF name \in CondNames THEN {Dom, LowHalf} ELSE {Dom}) :
           state = [cons |-> earlier, mem |-> InitMem]
    /\ result = NotCalled
    /\ prog = NoProg
    /\ worklist = <<>>
    /\ yielded = <<>>
    /\ vm = "ready"
    /\ pushed = <<>>
    /\ popped = <<>>
    /\ NoMethod

\* Intrinsics::get(name)
Get ==
    /\ hook = "unset"
    /\ hook' = get(fixed, variable, name)
    /\ UNCHANGED <<fixed, variable, name, args, state, result>>
    /\ UNCHANGED vmVars
    /\ UNCHANGED bvVars

\* The hook is called with the state and the call's arguments.
Invoke(h, out) ==
    /\ hook = h
    /\ result = NotCalled
    /\ result' = out.ret
    /\ state' = out.st
    /\ UNCHANGED <<fixed, variable, name, args, hook>>
    /\ UNCHANGED vmVars
    /\ UNCHANGED bvVars

CallAssume == Invoke("llvm_assume", llvm_assume(state, args))

CallUmax == Invoke("llvm_umax", llvm_umax(state, args))

CallSaddWithOverflow == Invoke("llvm_sadd_with_overflow", llvm_sadd_with_overflow(state, args))

CallUaddWithOverflow == Invoke("llvm_uadd_with_overflow", llvm_uadd_with_overflow(state, args))

CallSsubWithOverflow == Invoke("llvm_ssub_with_overflow", llvm_ssub_with_overflow(state, args))

CallUsubWithOverflow == Invoke("llvm_usub_with_overflow", llvm_usub_with_overflow(state, args))

CallSmulWithOverflow == Invoke("llvm_smul_with_overflow", llvm_smul_with_overflow(state, args))

CallUmulWithOverflow == Invoke("llvm_umul_with_overflow", llvm_umul_with_overflow(state, args))

CallSaddSat == Invoke("llvm_sadd_sat", llvm_sadd_sat(state, args))

CallUaddSat == Invoke("llvm_uadd_sat", llvm_uadd_sat(state, args))

CallExpect == Invoke("llvm_expect", llvm_expect(state, args))

CallNoop == Invoke("noop", noop(state, args))

\* The build, with or without overflow checks, is not fixed by the source.
CallMemcpy == \E checks \in BOOLEAN : Invoke("llvm_memcpy", llvm_memcpy(state, args, checks))

CallMemset == Invoke("llvm_memset", llvm_memset(state, args))

NextCall ==
    \/ Get
    \/ CallAssume
    \/ CallUmax
    \/ CallSaddWithOverflow
    \/ CallUaddWithOverflow
    \/ CallSsubWithOverflow
    \/ CallUsubWithOverflow
    \/ CallSmulWithOverflow
    \/ CallUmulWithOverflow
    \/ CallSaddSat
    \/ CallUaddSat
    \/ CallExpect
    \/ CallNoop
    \/ CallMemcpy
    \/ CallMemset

SpecCall == InitCall /\ [][NextCall]_vars

\* ------------------------------------------------------- the path explorer
\* The call instruction of the interpreter for an llvm.* callee: look the name
\* up and run the hook on the current state.
run_hook(h, st, f) ==
    CASE h = "llvm_assume" -> llvm_assume(st, f)
      [] h = "llvm_umax" -> llvm_umax(st, f)
      [] h = "llvm_sadd_with_overflow" -> llvm_sadd_with_overflow(st, f)
      [] h = "llvm_uadd_with_overflow" -> llvm_uadd_with_overflow(st, f)
      [] h = "llvm_ssub_with_overflow" -> llvm_ssub_with_overflow(st, f)
      [] h = "llvm_usub_with_overflow" -> llvm_usub_with_overflow(st, f)
      [] h = "llvm_smul_with_overflow" -> llvm_smul_with_overflow(st, f)
      [] h = "llvm_umul_with_overflow" -> llvm_umul_with_overflow(st, f)
      [] h = "llvm_sadd_sat" -> llvm_sadd_sat(st, f)
      [] h = "llvm_uadd_sat" -> llvm_uadd_sat(st, f)
      [] h = "llvm_expect" -> llvm_expect(st, f)
      [] h = "noop" -> noop(st, f)

Dispatch(h, st, f) ==
    IF h = NoHook THEN Out(Err("UnknownFunction"), st) ELSE run_hook(h, st, f)

call_intrinsic(st, nm, f) == Dispatch(get(fixed, variable, nm), st, f)

\* The value a path returns at node k.
RetVal(k) == [len |-> 8, val |-> k]

Suspended(k, cons) == [node |-> k, cons |-> cons]

RECURSIVE Reverse(_)
Reverse(q) == IF q = <<>> THEN <<>> ELSE Append(Reverse(Tail(q)), Head(q))

\* Every successor, satisfiable or not.
Feasible_Unpruned(p, k, cons) == Succs(p, k)

\* The successors of node k that are satisfiable under the constraints cons.
Feasible(p, k, cons) ==
    LET Sat(sc) == cons \cap sc.c # {}
    IN  SelectSeq(Succs(p, k), Sat)

\* A fork that puts the successors not taken on the worklist in source order.
Fork_SourceOrder(wl, others, cons) ==
    wl \o [i \in 1 .. Len(others) |-> Suspended(others[i].target, cons \cap others[i].c)]

\* A fork: the successors not taken are put on the worklist, each a copy of the
\* state with its own constraint added, so that they are popped in source order.
Fork(wl, others, cons) ==
    wl \o Reverse([i \in 1 .. Len(others) |->
                      Suspended(others[i].target, cons \cap others[i].c)])

\* The end of a path: what it yields, the state it ends in, and the worklist.
Ended(k, res, st, wl) == [leaf |-> k, res |-> res, st |-> st, wl |-> wl]

\* After a call: an error or a panic ends the path, otherwise it returns.
AfterCall(k, out, wl) ==
    IF out.ret.tag \in {"Err", "Panic"}
    THEN Ended(k, out.ret, out.st, wl)
    ELSE Ended(k, Value(RetVal(k)), out.st, wl)

\* The instruction that ends a path.
Terminate(ins, k, st, wl) ==
    IF ins.op = "ret" THEN Ended(k, Value(RetVal(k)), st, wl)
    ELSE IF ins.op = "unreachable" THEN Ended(k, Err("Abort"), st, wl)
    ELSE AfterCall(k, call_intrinsic(st, ins.name, ins.args), wl)

\* Stepping a state from node k until its path ends: at a branch the first
\* satisfiable successor is taken and the others are forked off.
RECURSIVE Exec(_, _, _, _)
\* The branch at node k, given its satisfiable successors.
Branch(p, feas, cons, wl) ==
    Exec(p, Head(feas).target, cons \cap Head(feas).c, Fork(wl, Tail(feas), cons))

Exec(p, k, cons, wl) ==
    IF k \notin Inner THEN Terminate(LeafInstr(p, k), k, [cons |-> cons], wl)
    ELSE Branch(p, Feasible(p, k, cons), cons, wl)

\* VM::new(entry, project): one state, positioned at the entry.
InitVM ==
    /\ fixed = DefaultFixed
    /\ variable = DefaultVariable
    /\ name = <<>>
    /\ args = <<>>
    /\ hook = "unset"
    /\ result = NotCalled
    /\ state = [cons |-> Dom]
    /\ prog \in Progs
    /\ worklist = <<Suspended(1, Dom)>>
    /\ yielded = <<>>
    /\ vm = "ready"
    /\ pushed = <<1>>
    /\ popped = <<>>
    /\ NoMethod

Top == worklist[Len(worklist)]

Below == SubSeq(worklist, 1, Len(worklist) - 1)

NodesOf(wl) == [i \in 1 .. Len(wl) |-> wl[i].node]

\* The bookkeeping of a run() that popped the top state and ended as r.
Popped(r) ==
    /\ worklist' = r.wl
    /\ state' = r.st
    /\ popped' = Append(popped, Top.node)
    /\ pushed' = pushed \o NodesOf(SubSeq(r.wl, Len(worklist), Len(r.wl)))

Returns(r) ==
    /\ r.res.tag # "Panic"
    /\ yielded' = Append(yielded, [leaf |-> r.leaf, res |-> r.res, cons |-> r.st.cons])
    /\ Popped(r)
    /\ UNCHANGED vm

Unwinds(r) ==
    /\ r.res.tag = "Panic"
    /\ vm' = "panicked"
    /\ Popped(r)
    /\ UNCHANGED yielded

\* run() with a state on the worklist: the state is popped and stepped to the
\* end of its path, and the outcome is returned.
RunSome ==
    /\ vm = "ready"
    /\ worklist # <<>>
    /\ Returns(Exec(prog, Top.node, Top.cons, Below))
    /\ UNCHANGED <<fixed, variable, prog>>
    /\ UNCHANGED callVars
    /\ UNCHANGED bvVars

\* run() in which a hook panics: the panic unwinds out of run() and out of the
\* caller's loop; no outcome is returned and run() is not called again.
RunPanics ==
    /\ vm = "ready"
    /\ worklist # <<>>
    /\ Unwinds(Exec(prog, Top.node, Top.cons, Below))
    /\ UNCHANGED <<fixed, variable, prog>>
    /\ UNCHANGED callVars
    /\ UNCHANGED bvVars

\* run() with an empty worklist returns None.
RunNone ==
    /\ vm = "ready"
    /\ worklist = <<>>
    /\ vm' = "none"
    /\ UNCHANGED <<fixed, variable, state, prog, worklist, yielded, pushed, popped>>
    /\ UNCHANGED callVars
    /\ UNCHANGED bvVars

NextVM == RunSome \/ RunPanics \/ RunNone

SpecVM == InitVM /\ [][NextVM]_vars

\* ------------------------------------------------- calls of the BV methods
\* The bit-vectors of the widths 1 .. MaxWidth.
BVs == UNION {{MkBV(w, v) : v \in 0 .. (Pow2(w) - 1)} : w \in 1 .. MaxWidth}

BinaryMethods ==
    { "eq", "ne", "ugt", "ugte", "ult", "ulte",
      "sgt", "sgte", "slt", "slte", "add", "sub",
      "mul", "udiv", "sdiv", "urem", "srem", "uaddo",
      "saddo", "usubo", "ssubo", "umulo", "smulo", "uadds",
      "sadds", "and", "or", "xor", "sll", "srl",
      "sra" }

\* The operands a method is called with.
ArgsOf(m) ==
    IF m \in BinaryMethods THEN {Arg(b, 0, 0, 0) : b \in BVs}
    ELSE IF m = "slice"
    THEN {Arg(PanicBV, 0, lh[1], lh[2]) : lh \in (0 .. (MaxWidth + 1)) \X (0 .. (MaxWidth + 1))}
    ELSE {Arg(PanicBV, w, 0, 0) : w \in 1 .. (MaxWidth + 1)}

Methods == BinaryMethods \cup {"slice", "resize_unsigned"}

InitBV ==
    /\ fixed = DefaultFixed
    /\ variable = DefaultVariable
    /\ name = <<>>
    /\ args = <<>>
    /\ hook = "unset"
    /\ state = [cons |-> Dom]
    /\ result = NotCalled
    /\ prog = NoProg
    /\ worklist = <<>>
    /\ yielded = <<>>
    /\ vm = "ready"
    /\ pushed = <<>>
    /\ popped = <<>>
    /\ method \in Methods
    /\ receiver \in BVs
    /\ argument \in ArgsOf(method)
    /\ returned = NotReturned

\* receiver.m(argument) runs to its end.
Apply(m, bv, by) ==
    /\ method = m
    /\ returned = NotReturned
    /\ returned' = Returned(bv, by)
    /\ UNCHANGED <<method, receiver, argument>>
    /\ UNCHANGED <<fixed, variable, state>>
    /\ UNCHANGED callVars
    /\ UNCHANGED vmVars

ApplyResizeUnsigned ==
    Apply("resize_unsigned", resize_unsigned(receiver, argument.width),
          IF IsPanic(resize_unsigned(receiver, argument.width)) THEN "panic" ELSE "none")

ApplySlice ==
    Apply("slice", slice(receiver, argument.low, argument.high),
          slice_rejected_by(receiver, argument.low, argument.high))

\* receiver.m(argument.bv) for the method named m.
binary(m, a, b) ==
    CASE m = "eq" -> compare(m, a, b)
      [] m = "ne" -> compare(m, a, b)
      [] m = "ugt" -> ugt(a, b)
      [] m = "ugte" -> compare(m, a, b)
      [] m = "ult" -> compare(m, a, b)
      [] m = "ulte" -> compare(m, a, b)
      [] m = "sgt" -> compare(m, a, b)
      [] m = "sgte" -> compare(m, a, b)
      [] m = "slt" -> compare(m, a, b)
      [] m = "slte" -> compare(m, a, b)
      [] m = "add" -> add(a, b)
      [] m = "sub" -> sub(a, b)
      [] m = "mul" -> mul(a, b)
      [] m = "udiv" -> udiv(a, b)
      [] m = "sdiv" -> sdiv(a, b)
      [] m = "urem" -> urem(a, b)
      [] m = "srem" -> srem(a, b)
      [] m = "uaddo" -> uaddo(a, b)
      [] m = "saddo" -> saddo(a, b)
      [] m = "usubo" -> usubo(a, b)
      [] m = "ssubo" -> ssubo(a, b)
      [] m = "umulo" -> umulo(a, b)
      [] m = "smulo" -> smulo(a, b)
      [] m = "uadds" -> uadds(a, b)
      [] m = "sadds" -> sadds(a, b)
      [] m = "and" -> logical(m, a, b)
      [] m = "or" -> logical(m, a, b)
      [] m = "xor" -> logical(m, a, b)
      [] m = "sll" -> shift(m, a, b)
      [] m = "srl" -> shift(m, a, b)
      [] m = "sra" -> shift(m, a, b)

ApplyBinary(m) ==
    Apply(m, binary(m, receiver, argument.bv),
          IF IsPanic(binary(m, receiver, argument.bv)) THEN "panic" ELSE "none")

NextBV ==
    \/ ApplyResizeUnsigned
    \/ ApplySlice
    \/ \E m \in BinaryMethods : ApplyBinary(m)

SpecBV == InitBV /\ [][NextBV]_vars

\* ------------------------------------------------------------ properties
\* The tree of the entry function, read off the program alone.
RECURSIVE InTree(_, _)
InTree(p, k) ==
    \/ k = 1
    \/ /\ k > 1
       /\ Parent(k) \in Inner
       /\ InTree(p, Parent(k))
       /\ Index(k) <= Len(Succs(p, Parent(k)))

\* The conjunction of the branch constraints from the entry down to node k.
RECURSIVE PathCons(_, _)
PathCons(p, k) ==
    IF k = 1 THEN Dom
    ELSE PathCons(p, Parent(k)) \cap Succs(p, Parent(k))[Index(k)].c

\* The paths of the entry function that some input takes, by their last node.
FeasiblePaths(p) == {k \in Nodes \ Inner : InTree(p, k) /\ PathCons(p, k) # {}}

\* The successor indices from the entry down to node k.
RECURSIVE PathSeq(_)
PathSeq(k) == IF k = 1 THEN <<>> ELSE Append(PathSeq(Parent(k)), Index(k))

\* Depth-first, successors in source order: where the two paths part, a takes
\* the earlier successor.
DfsBefore(a, b) ==
    LET pa == PathSeq(a)
        pb == PathSeq(b)
    IN  \E i \in 1 .. Len(pa) :
            /\ i <= Len(pb)
            /\ SubSeq(pa, 1, i - 1) = SubSeq(pb, 1, i - 1)
            /\ pa[i] < pb[i]

Range(q) == {q[i] : i \in 1 .. Len(q)}

NoRepeat(q) == \A i, j \in 1 .. Len(q) : i # j => q[i] # q[j]

YieldedLeaves == [i \in 1 .. Len(yielded) |-> yielded[i].leaf]

Stopped == vm # "ready"

\* C1: for an entry function with finitely many finite paths, the run() calls
\* yield exactly one outcome per feasible path: every state pushed on the
\* worklist is later popped and yielded exactly once, and run() returns None
\* only when the worklist is empty.
C1_OneOutcomePerPath ==
    /\ NoRepeat(YieldedLeaves)
    /\ NoRepeat(popped)
    /\ Len(yielded) = Len(popped)
    /\ vm = "none" => worklist = <<>>
    /\ Stopped =>
        /\ Range(YieldedLeaves) = FeasiblePaths(prog)
        /\ Range(popped) = Range(pushed)

\* What remains of C1 in the runs in which no hook panics.
C1_UnlessPanicked ==
    /\ NoRepeat(YieldedLeaves)
    /\ NoRepeat(popped)
    /\ NoRepeat(pushed)
    /\ Range(pushed) = Range(popped) \cup Range(NodesOf(worklist))
    /\ vm # "panicked" => Len(yielded) = Len(popped)
    /\ vm = "none" =>
        /\ worklist = <<>>
        /\ Range(YieldedLeaves) = FeasiblePaths(prog)

\* C2: outcomes come in depth-first order: at a conditional branch every path
\* through the true successor is yielded before any path through the false
\* successor, switch successors go in source order, and the sequence is
\* determined by the entry function.
C2_DepthFirstOrder ==
    /\ \A i, j \in 1 .. Len(yielded) :
           i < j => DfsBefore(yielded[i].leaf, yielded[j].leaf)
    /\ \A j \in 1 .. Len(yielded) :
           \A k \in FeasiblePaths(prog) :
               DfsBefore(k, yielded[j].leaf) => \E i \in 1 .. (j - 1) : yielded[i].leaf = k

\* Four paths: two under the true successor of the entry's br, then two of the
\* switch under its false successor.
C2_Witness ==
    /\ Len(yielded) = 4
    /\ prog.inner[1].op = "br"
    /\ prog.inner[3].op = "switch"
    /\ Parent(yielded[2].leaf) = 2
    /\ Parent(yielded[3].leaf) = 3

\* Three successors of a switch at the entry, all taken, in source order.
C2_WitnessSwitch ==
    /\ prog.inner[1].op = "switch"
    /\ \E i, j, k \in 1 .. Len(yielded) :
           /\ i < j /\ j < k
           /\ PathSeq(yielded[i].leaf)[1] = 1
           /\ PathSeq(yielded[j].leaf)[1] = 2
           /\ PathSeq(yielded[k].leaf)[1] = 3

AllConcrete(p) == \A k \in Inner : p.inner[k].op = "br" /\ p.inner[k].cond \in {Dom, {}}

\* C3: a branch successor whose constraint is unsatisfiable under the path
\* constraints is never enqueued or yielded; so an entry function whose branch
\* conditions are all concrete has exactly one path.
C3_UnsatPruned ==
    /\ \A i \in 1 .. Len(worklist) :
           worklist[i].cons # {} /\ PathCons(prog, worklist[i].node) # {}
    /\ \A j \in 1 .. Len(yielded) : PathCons(prog, yielded[j].leaf) # {}
    /\ \A i \in 1 .. Len(popped) : PathCons(prog, popped[i]) # {}
    /\ AllConcrete(prog) =>
        /\ pushed = <<1>>
        /\ Len(yielded) <= 1
        /\ Stopped => Len(popped) = 1
        /\ vm = "none" => Len(yielded) = 1

\* All paths done, and a successor of a branch on the symbolic input was
\* dropped because the constraints above it contradict it.
C3_Witness ==
    /\ vm = "none"
    /\ Len(yielded) >= 2
    /\ \E k \in Nodes \ Inner :
           /\ InTree(prog, k)
           /\ PathCons(prog, Parent(k)) # {}
           /\ prog.inner[Parent(k)].op = "br"
           /\ prog.inner[Parent(k)].cond \notin {Dom, {}}
           /\ PathCons(prog, k) = {}
           /\ k \notin Range(YieldedLeaves)

\* An entry function with concrete branches only, run to the end.
C3_WitnessConcrete ==
    /\ AllConcrete(prog)
    /\ vm = "none"
    /\ Len(yielded) = 1

\* C4: any failure while executing an instruction or intrinsic call is yielded
\* as Err for the current path only; the later run() calls still return every
\* other state that was on the worklist.
C4_FailuresYieldErr ==
    /\ vm # "panicked"
    /\ \A j \in 1 .. Len(yielded) :
           LeafInstr(prog, yielded[j].leaf).fails => yielded[j].res.tag = "Err"
    /\ vm = "none" => Range(YieldedLeaves) = FeasiblePaths(prog)

\* What llvm.assume adds at the end of the path to node k.
AssumedAt(p, k) ==
    LET ins == LeafInstr(p, k)
    IN  IF /\ ins.op = "call"
           /\ ins.name = Dotted(<<Word.llvm, Word.assume>>)
           /\ Len(ins.args) = 1
           /\ ins.args[1].ok
        THEN ins.args[1].bv.truth
        ELSE Dom

PrefixOf(p, s) == Len(p) <= Len(s) /\ \A i \in 1 .. Len(p) : p[i] = s[i]

Looked == hook # "unset"

\* C6: Intrinsics::get(name) returns the hook registered under exactly `name`
\* in the fixed table if there is one; otherwise the hook of the longest
\* registered variable prefix that is a prefix of `name`; and None when no
\* registered prefix is a prefix of `name`.
C6_GetExactThenLongestPrefix ==
    Looked =>
        /\ name \in DOMAIN fixed => hook = fixed[name]
        /\ name \notin DOMAIN fixed =>
            /\ \A k \in DOMAIN variable :
                   (/\ PrefixOf(k, name)
                    /\ \A j \in DOMAIN variable : PrefixOf(j, name) => Len(j) <= Len(k))
                   => hook = variable[k]
            /\ (\A k \in DOMAIN variable : ~PrefixOf(k, name)) => hook = NoHook

\* A lookup answered by the variable table for a name longer than its prefix.
C6_Witness ==
    /\ Looked
    /\ name \notin DOMAIN fixed
    /\ name \notin DOMAIN variable
    /\ hook = "llvm_sadd_with_overflow"

\* A lookup that found nothing although the name starts like a registered one.
C6_WitnessNone ==
    /\ Looked
    /\ hook = NoHook
    /\ name = Dotted(<<Word.llvm, Word.assume, Word.i8>>)

Called == result # NotCalled

OverflowHooks ==
    { "llvm_sadd_with_overflow", "llvm_uadd_with_overflow", "llvm_ssub_with_overflow",
      "llvm_usub_with_overflow", "llvm_smul_with_overflow", "llvm_umul_with_overflow" }

IsSignedHook(h) ==
    h \in {"llvm_sadd_with_overflow", "llvm_ssub_with_overflow", "llvm_smul_with_overflow",
           "llvm_sadd_sat"}

\* The integer a w-bit pattern v stands for under the hook's signedness.
Reading(h, w, v) == IF IsSignedHook(h) /\ v >= Pow2(w - 1) THEN v - Pow2(w) ELSE v

\* The mathematical (unbounded) result of the hook's operation on two w-bit patterns.
Exact(h, w, a, b) ==
    LET x == Reading(h, w, a)
        y == Reading(h, w, b)
    IN  CASE h \in {"llvm_sadd_with_overflow", "llvm_uadd_with_overflow",
                    "llvm_sadd_sat", "llvm_uadd_sat"} -> x + y
          [] h \in {"llvm_ssub_with_overflow", "llvm_usub_with_overflow"} -> x - y
          [] h \in {"llvm_smul_with_overflow", "llvm_umul_with_overflow"} -> x * y

\* The least and greatest integers of w bits under the hook's signedness.
Least(h, w) == IF IsSignedHook(h) THEN -Pow2(w - 1) ELSE 0

Greatest(h, w) == IF IsSignedHook(h) THEN Pow2(w - 1) - 1 ELSE Pow2(w) - 1

Fits(h, w, m) == Least(h, w) <= m /\ m <= Greatest(h, w)

BothInt(f) ==
    /\ Len(f) = 2
    /\ f[1].ok /\ f[2].ok
    /\ f[1].ty.kind = "int" /\ f[2].ty.kind = "int"
    /\ f[1].ty.bits = f[2].ty.bits

BothVec(f) ==
    /\ Len(f) = 2
    /\ f[1].ok /\ f[2].ok
    /\ f[1].ty.kind = "vec" /\ f[2].ty.kind = "vec"
    /\ ~f[1].ty.scalable /\ ~f[2].ty.scalable
    /\ f[1].ty.bits = f[2].ty.bits /\ f[1].ty.n = f[2].ty.n
    /\ f[1].ty.n >= 1

\* Bit i of the unsigned value v, and the w-bit lane i of it.
BitOf(v, i) == (v \div Pow2(i)) % 2

LaneOf(v, w, i) == (v \div Pow2(i * w)) % Pow2(w)

\* C7: for scalar integer operands a, b of equal width w, each of the six
\* with.overflow intrinsics returns a value of width w+1 whose low w bits are
\* the wrapping result (a op b) mod 2^w and whose bit w is 1 exactly when the
\* mathematical result does not fit in w bits under the intrinsic's signedness.
C7_ScalarOverflowLayout ==
    (Called /\ hook \in OverflowHooks /\ BothInt(args)) =>
        LET w == args[1].ty.bits
            m == Exact(hook, w, args[1].bv.val, args[2].bv.val)
        IN  /\ result.tag = "Value"
            /\ result.val.len = w + 1
            /\ result.val.val % Pow2(w) = m % Pow2(w)
            /\ BitOf(result.val.val, w) = (IF Fits(hook, w, m) THEN 0 ELSE 1)

\* A signed subtraction that overflows although the unsigned one would not borrow.
C7_Witness ==
    /\ Called
    /\ hook = "llvm_ssub_with_overflow"
    /\ BothInt(args)
    /\ args[1].ty.bits = 2
    /\ args[1].bv.val = 2 /\ args[2].bv.val = 1
    /\ result.tag = "Value"
    /\ BitOf(result.val.val, 2) = 1

\* C8: for vector operands of n lanes of w bits, an overflow intrinsic returns
\* n*w + n bits: bits [i*w, (i+1)*w - 1] are the wrapping result of lane i and
\* bit n*w + i is the overflow flag of lane i, for every lane i.
C8_VectorOverflowLayout ==
    (Called /\ hook \in OverflowHooks /\ BothVec(args)) =>
        LET w == args[1].ty.bits
            n == args[1].ty.n
        IN  /\ result.tag = "Value"
            /\ result.val.len = n * w + n
            /\ \A i \in 0 .. (n - 1) :
                   LET m == Exact(hook, w, LaneOf(args[1].bv.val, w, i),
                                           LaneOf(args[2].bv.val, w, i))
                   IN  /\ LaneOf(result.val.val, w, i) = m % Pow2(w)
                       /\ BitOf(result.val.val, n * w + i) = (IF Fits(hook, w, m) THEN 0 ELSE 1)

\* Two lanes that differ both in their result and in their overflow flag.
C8_Witness ==
    /\ Called
    /\ hook = "llvm_uadd_with_overflow"
    /\ BothVec(args)
    /\ args[1].ty.n = 2 /\ args[1].ty.bits = 2
    /\ result.tag = "Value"
    /\ LaneOf(result.val.val, 2, 0) # LaneOf(result.val.val, 2, 1)
    /\ BitOf(result.val.val, 4) = 1
    /\ BitOf(result.val.val, 5) = 0

Clamp(m, lo, hi) == IF m < lo THEN lo ELSE IF m > hi THEN hi ELSE m

\* C9: for a, b of equal width w >= 1, sadds(a, b) is clamp(a + b, -2^(w-1),
\* 2^(w-1) - 1), operands and result read as signed.
C9_SaddsClamps ==
    (Called /\ hook = "llvm_sadd_sat" /\ BothInt(args)) =>
        LET w == args[1].ty.bits
            m == Exact(hook, w, args[1].bv.val, args[2].bv.val)
        IN  /\ result.tag = "Value"
            /\ result.val.len = w
            /\ Reading(hook, w, result.val.val) = Clamp(m, Least(hook, w), Greatest(hook, w))

\* C10: for a, b of equal width w, uadds(a, b) is min(a + b, 2^w - 1), operands
\* read as unsigned.
C10_UaddsSaturates ==
    (Called /\ hook = "llvm_uadd_sat" /\ BothInt(args)) =>
        LET w == args[1].ty.bits
            m == args[1].bv.val + args[2].bv.val
        IN  /\ result.tag = "Value"
            /\ result.val.len = w
            /\ result.val.val = (IF m < Pow2(w) - 1 THEN m ELSE Pow2(w) - 1)

\* An unsigned sum that saturates at a width where all-ones differs from one.
C10_Witness ==
    /\ Called
    /\ hook = "llvm_uadd_sat"
    /\ BothInt(args)
    /\ args[1].ty.bits = 3
    /\ args[1].bv.val + args[2].bv.val > 7
    /\ result = Value([len |-> 3, val |-> 7])

\* A BV method call has run to its end.
Applied(m) == method = m /\ returned # NotReturned

\* The low w bits of x, zero-extended to w bits when x is narrower.
Resized(x, w) == [len |-> w, val |-> x.val % Pow2(w)]

\* C11: resize_unsigned(x, w) returns a bit-vector of exactly w bits for every
\* x and every w >= 1: x itself when w = x.len(), x zero-extended when
\* x.len() < w, and the low w bits of x when x.len() > w.
C11_ResizeUnsignedExactWidth ==
    Applied("resize_unsigned") => returned.bv = Resized(receiver, argument.width)

\* What resize_unsigned does instead: it returns x when w = x.len() and panics
\* for every other width.
C11_OnlySameWidth ==
    Applied("resize_unsigned") =>
        IF argument.width = receiver.len THEN returned.bv = receiver
        ELSE IsPanic(returned.bv)

\* The range low..high lies inside x.
InRange(x, low, high) == 0 <= low /\ low <= high /\ high < x.len

\* C12: slice(x, low, high) is accepted exactly when 0 <= low <= high <
\* x.len(), and then returns the bits low..high inclusive, of width
\* high - low + 1; any call with high >= x.len() or low > high is rejected by
\* the wrapper's own bounds check, before the solver is invoked.
C12_SliceBoundsCheckedByWrapper ==
    Applied("slice") =>
        /\ (returned.by = "none") <=> InRange(receiver, argument.low, argument.high)
        /\ returned.by = "none" =>
               /\ returned.bv.len = argument.high - argument.low + 1
               /\ returned.bv.val =
                      (receiver.val \div Pow2(argument.low))
                          % Pow2(argument.high - argument.low + 1)
        /\ ~InRange(receiver, argument.low, argument.high) => returned.by = "wrapper"

\* What holds of slice: a call out of range returns no bit-vector, and the
\* wrapper lets exactly high = x.len() through to the solver.
C12_RejectedByWrapperOrSolver ==
    Applied("slice") =>
        /\ (returned.by = "none") <=> InRange(receiver, argument.low, argument.high)
        /\ IsPanic(returned.bv) <=> returned.by # "none"
        /\ (returned.by = "solver") <=>
               (argument.low <= argument.high /\ argument.high = receiver.len)

\* C13: every binary BV operation (comparisons, add/sub/mul/div/rem, overflow
\* predicates, saturating adds, and/or/xor, shifts sll/srl/sra) rejects
\* operands of different widths as a programmer error instead of producing a
\* value.
C13_BinaryOpsRejectWidthMismatch ==
    \A m \in BinaryMethods :
        (Applied(m) /\ receiver.len # argument.bv.len) => IsPanic(returned.bv)

\* What holds: every binary operation but the shifts returns no value for
\* operands of different widths, and a shift returns one exactly when the
\* width of the shifted value is two to the width of the shift amount.
C13_ExceptShifts ==
    \A m \in BinaryMethods :
        (Applied(m) /\ receiver.len # argument.bv.len) =>
            IF m \in {"sll", "srl", "sra"}
            THEN IsPanic(returned.bv) <=> (Pow2(argument.bv.len) # receiver.len)
            ELSE IsPanic(returned.bv)

\* A memory hook was called with four arguments whose operands all evaluate.
MemCalled(h) ==
    /\ hook = h
    /\ Called
    /\ Len(args) = 4
    /\ \A i \in 1 .. 3 : args[i].ok

\* A size the allocation can be compared with.
Small(size) == size[2] = 0 /\ size[3] = 0 /\ size[4] = 0

\* The addresses a, a + 1, ..., a + size - 1.
InRegion(x, a, size) == a <= x /\ (Small(size) => x < a + size[1])

\* The region of that size at a lies inside the allocation.
Within(a, size) == Small(size) /\ a + size[1] <= MemBytes

\* C14: llvm.memset(dst, v, n), with n the concretized size, writes byte v to
\* each address dst + i for 0 <= i < n and writes no other address:
\* afterwards every byte in [dst, dst+n) equals v, every byte outside is
\* unchanged, and with n = 0 memory is unchanged. The call returns Void.
C14_MemsetFillsRegion ==
    (MemCalled("llvm_memset") /\ args[2].bv.len = BITS_IN_BYTE) =>
        /\ \A x \in DOMAIN InitMem :
               ~InRegion(x, args[1].bv.val, args[3].bv.limbs) => state.mem[x] = InitMem[x]
        /\ Within(args[1].bv.val, args[3].bv.limbs) =>
               /\ result = Void
               /\ \A x \in DOMAIN InitMem :
                      InRegion(x, args[1].bv.val, args[3].bv.limbs) =>
                          state.mem[x] = args[2].bv.val
        /\ args[3].bv.limbs = U64(0) => (result = Void /\ state.mem = InitMem)

\* A memset of two bytes in the middle of the allocation.
C14_Witness ==
    /\ MemCalled("llvm_memset")
    /\ args[1].bv.val = 1
    /\ args[2].bv = MkBV(BITS_IN_BYTE, 171)
    /\ args[3].bv.limbs = U64(2)
    /\ result = Void
    /\ state.mem[0] = InitMem[0]
    /\ state.mem[1] = 171
    /\ state.mem[2] = 171
    /\ state.mem[3] = InitMem[3]

\* The two regions of that size share no address.
Disjoint(a, b, size) == a + size[1] <= b \/ b + size[1] <= a

\* C15: after llvm.memcpy(dst, src, n) on non-overlapping regions, with n the
\* concretized size, the n bytes at dst equal the n bytes that were at src
\* before the call, in the same order, and the bytes at src and all bytes
\* outside [dst, dst+n) are unchanged.
C15_MemcpyCopiesRegion ==
    (/\ MemCalled("llvm_memcpy")
     /\ Within(args[1].bv.val, args[3].bv.limbs)
     /\ Within(args[2].bv.val, args[3].bv.limbs)
     /\ Disjoint(args[1].bv.val, args[2].bv.val, args[3].bv.limbs)) =>
        /\ args[3].bv.limbs # U64(0) => result = Void
        /\ \A i \in 0 .. (args[3].bv.limbs[1] - 1) :
               state.mem[args[1].bv.val + i] = InitMem[args[2].bv.val + i]
        /\ \A x \in DOMAIN InitMem :
               ~InRegion(x, args[1].bv.val, args[3].bv.limbs) => state.mem[x] = InitMem[x]

\* A memcpy of the two upper bytes of the allocation onto the two lower ones.
C15_Witness ==
    /\ MemCalled("llvm_memcpy")
    /\ args[1].bv.val = 0
    /\ args[2].bv.val = 2
    /\ args[3].bv.limbs = U64(2)
    /\ result = Void
    /\ state.mem[0] = InitMem[2]
    /\ state.mem[1] = InitMem[3]
    /\ state.mem[0] # state.mem[1]
    /\ state.mem[2] = InitMem[2]
    /\ state.mem[3] = InitMem[3]

\* The limbs of n * k + carry, one limb longer than n, computed without a width.
RECURSIVE Scaled(_, _, _)
Scaled(n, k, carry) ==
    IF n = <<>> THEN <<carry>>
    ELSE <<(Head(n) * k + carry) % Limb>> \o Scaled(Tail(n), k, (Head(n) * k + carry) \div Limb)

\* The number of bits llvm_memcpy asks memory to read for the size n.
Requested(n) == mul_u32(as_u32(n), BITS_IN_BYTE)

\* C19: for every concretized size n in the u64 range, llvm_memcpy requests a
\* read of exactly 8*n bits: converting n to 32 bits and multiplying by
\* BITS_IN_BYTE neither truncates nor overflows, so the number of bytes copied
\* is never smaller than n.
C19_MemcpyReadsEightTimesSize ==
    MemCalled("llvm_memcpy") =>
        /\ ~Requested(args[3].bv.limbs).overflow
        /\ Requested(args[3].bv.limbs).val \o <<0, 0, 0>>
               = Scaled(args[3].bv.limbs, BITS_IN_BYTE, 0)
        /\ result = Void =>
               /\ Within(args[1].bv.val, args[3].bv.limbs)
               /\ Within(args[2].bv.val, args[3].bv.limbs)

\* What holds: the request is 8*n bits exactly for the sizes below 2^29, and
\* for no other size.
C19_ExactBelowTwoToThe29 ==
    MemCalled("llvm_memcpy") =>
        ((Requested(args[3].bv.limbs).val \o <<0, 0, 0>>
              = Scaled(args[3].bv.limbs, BITS_IN_BYTE, 0))
         <=> (/\ args[3].bv.limbs[2] < Pow2(13)
              /\ args[3].bv.limbs[3] = 0
              /\ args[3].bv.limbs[4] = 0))

\* A memcpy of 2^32 + 2 bytes that returned after copying two.
C19_Truncated ==
    /\ MemCalled("llvm_memcpy")
    /\ args[3].bv.limbs = <<2, 0, 1, 0>>
    /\ result = Void
    /\ state.mem[0] = InitMem[2]
    /\ state.mem[1] = InitMem[3]

\* llvm.assume is being called with a condition that evaluates.
Assuming == hook = "llvm_assume" /\ Len(args) = 1 /\ args[1].ok

UnsupportedNames ==
    { Dotted(<<Word.llvm, Word.ssub, Word.sat, Word.i8>>),
      Dotted(<<Word.llvm, Word.usub, Word.sat, Word.i8>>),
      Dotted(<<Word.llvm, Word.memcpy, Word.inline, Word.i8>>),
      Dotted(<<Word.llvm, Word.expect, Word.with, Word.probability, Word.i8>>),
      Dotted(<<Word.llvm, Word.smax, Word.i8>>),
      Dotted(<<Word.llvm, Word.umin, Word.i8>>) }

\* C17: a call to an intrinsic whose handling is deferred or marked
\* unsupported in the module documentation (llvm.ssub.sat.*, llvm.usub.sat.*,
\* llvm.memcpy.inline.*, llvm.expect.with.probability.*, llvm.smax.*,
\* llvm.umin.*) yields UnsupportedInstruction for that path: it never runs
\* another intrinsic's hook and is never a silent no-op.
C17_UnsupportedRunsNoHook ==
    (name \in UnsupportedNames /\ Looked) =>
        /\ hook = NoHook
        /\ Called => result = Err("UnsupportedInstruction")

\* What holds: of these names, exactly llvm.memcpy.inline.* and
\* llvm.expect.with.probability.* find a hook, that of llvm.memcpy.* and that
\* of llvm.expect.*.
C17_CapturedByPrefix ==
    (name \in UnsupportedNames /\ Looked) =>
        hook = IF name = Dotted(<<Word.llvm, Word.memcpy, Word.inline, Word.i8>>)
               THEN "llvm_memcpy"
               ELSE IF name = Dotted(<<Word.llvm, Word.expect, Word.with, Word.probability,
                                       Word.i8>>)
               THEN "llvm_expect"
               ELSE NoHook

\* The two operands are zero-element fixed vectors, or are not both integers
\* and not both fixed vectors.
Malformed(f) ==
    /\ Len(f) = 2
    /\ f[1].ok /\ f[2].ok
    /\ \/ /\ f[1].ty.kind = "vec" /\ f[2].ty.kind = "vec"
          /\ ~f[1].ty.scalable /\ ~f[2].ty.scalable
          /\ f[1].ty.n = 0 /\ f[2].ty.n = 0
       \/ /\ ~(f[1].ty.kind = "int" /\ f[2].ty.kind = "int")
          /\ ~(/\ f[1].ty.kind = "vec" /\ f[2].ty.kind = "vec"
               /\ ~f[1].ty.scalable /\ ~f[2].ty.scalable)

\* One of the two operands is a scalable vector, the other a vector.
SomeScalable(f) ==
    /\ f[1].ty.kind = "vec" /\ f[2].ty.kind = "vec"
    /\ (f[1].ty.scalable \/ f[2].ty.scalable)

\* C18: an overflow intrinsic whose operands are zero-element vectors, or
\* whose two operands are not both integers or both fixed vectors, returns
\* Err(MalformedInstruction) and produces no value; no solver constraint and
\* no memory cell is changed by the failed call.
C18_MalformedOperandsYieldErr ==
    (hook \in OverflowHooks /\ Called /\ Malformed(args)) =>
        /\ result = Err("MalformedInstruction")
        /\ state = [cons |-> Dom, mem |-> InitMem]

\* What holds: the same, but for two vectors of which one is scalable, where
\* the hook panics.
C18_UnlessScalable ==
    (hook \in OverflowHooks /\ Called /\ Malformed(args)) =>
        /\ result = IF SomeScalable(args) THEN Panic ELSE Err("MalformedInstruction")
        /\ state = [cons |-> Dom, mem |-> InitMem]
====
